---- MODULE Spec2Model ----
(***************************************************************************)
(* Model of the tweet relay server (src/unnamed/part_000): the in-memory   *)
(* rate limiter (tweetCount, lastResetTime, checkRateLimit) and the        *)
(* request handlers that generate and publish tweets and threads.          *)
(* A handler runs atomically from one suspension point (await) to the      *)
(* next; the answers of the two upstream APIs and the passing of time are  *)
(* chosen nondeterministically.                                            *)
(***************************************************************************)
EXTENDS Integers, Sequences, FiniteSets, Bags, TLC

\* ---------------------------------------------------------------- constants
TWEET_LIMIT == 17
RESET_PERIOD == 24 * 60 * 60 * 1000

\* ------------------------------------------------------------------- bounds
\* number of requests that may be in flight (suspended at an await) at once
MaxInFlight == 2
\* number of times the wall clock is observed to have advanced
MaxTicks == 1
\* longest tweets array that passes the rate-limit check
MaxThreadLen == 2
\* largest explicit partCount of a /generate-thread request
MaxParts == 2

\* Date.now() when the module is loaded
StartTime == 0

\* the clock advances to the last instant of a window or just past it
Deltas == {RESET_PERIOD, RESET_PERIOD + 1}

\* ------------------------------------------------------------ JS values
Undefined == "<undefined>"
Null == "<null>"
NoReply == "<no reply field>"
\* a field of a response body: <<v>> when the body carries it with value v,
\* Absent when the body has no such field
Absent == <<>>

\* JS truthiness of a string-or-undefined value: !v is true for undefined, ""
Truthy(v) == v \notin {Undefined, Null, ""}

\* what response.data?.data?.id may evaluate to on the 2xx answer to the publish
\* call of `text`: nothing, or the identifier of the tweet created for it
TweetIds(text) == {Undefined, "id-" \o text}

\* answers of the publish API: axios rejects (non-2xx, network) or resolves
TwitterResponses(text) ==
    {[ok |-> FALSE, id |-> Undefined]}
        \cup {[ok |-> TRUE, id |-> t] : t \in TweetIds(text)}

\* req.body.topic / req.body.tweet
Topics == {Undefined, "", "AI"}
TweetBodies == {Undefined, "", "hello"}

\* req.body.tweets: missing, not an array, or an array of n texts
ThreadLens == (0..MaxThreadLen) \cup {TWEET_LIMIT + 1}
TweetsArray(n) == [kind |-> "array", items |-> [k \in 1..n |-> ToString(k)]]
TweetsBodies ==
    {[kind |-> "undefined", items |-> <<>>], [kind |-> "string", items |-> <<>>]}
        \cup {TweetsArray(n) : n \in ThreadLens}

\* ---------------------------------------------------------- rate limiter
\* checkRateLimit() evaluated on state (count, lastReset) at time t: the value
\* it returns together with the state it leaves behind
\* variant: the window already counts as expired at exactly RESET_PERIOD
checkRateLimitWrongBoundary(count, lastReset, t) ==
    IF t - lastReset >= RESET_PERIOD
    THEN [allowed |-> TRUE, remaining |-> TWEET_LIMIT,
          tweetCount |-> 0, lastResetTime |-> t]
    ELSE IF count >= TWEET_LIMIT
    THEN [allowed |-> FALSE, remaining |-> 0,
          tweetCount |-> count, lastResetTime |-> lastReset]
    ELSE [allowed |-> TRUE, remaining |-> TWEET_LIMIT - count,
          tweetCount |-> count, lastResetTime |-> lastReset]

\* variant: the limit is compared with > instead of >=
checkRateLimitOffByOne(count, lastReset, t) ==
    IF t - lastReset > RESET_PERIOD
    THEN [allowed |-> TRUE, remaining |-> TWEET_LIMIT,
          tweetCount |-> 0, lastResetTime |-> t]
    ELSE IF count > TWEET_LIMIT
    THEN [allowed |-> FALSE, remaining |-> 0,
          tweetCount |-> count, lastResetTime |-> lastReset]
    ELSE [allowed |-> TRUE, remaining |-> TWEET_LIMIT - count,
          tweetCount |-> count, lastResetTime |-> lastReset]

\* variant: an allowed check consumes one unit of quota itself
checkRateLimitConsumes(count, lastReset, t) ==
    IF t - lastReset > RESET_PERIOD
    THEN [allowed |-> TRUE, remaining |-> TWEET_LIMIT,
          tweetCount |-> 0, lastResetTime |-> t]
    ELSE IF count >= TWEET_LIMIT
    THEN [allowed |-> FALSE, remaining |-> 0,
          tweetCount |-> count, lastResetTime |-> lastReset]
    ELSE [allowed |-> TRUE, remaining |-> TWEET_LIMIT - count,
          tweetCount |-> count + 1, lastResetTime |-> lastReset]

\* variant: an expired window gets a new start but the counter is not cleared
checkRateLimitKeepsCount(count, lastReset, t) ==
    IF t - lastReset > RESET_PERIOD
    THEN [allowed |-> TRUE, remaining |-> TWEET_LIMIT,
          tweetCount |-> count, lastResetTime |-> t]
    ELSE IF count >= TWEET_LIMIT
    THEN [allowed |-> FALSE, remaining |-> 0,
          tweetCount |-> count, lastResetTime |-> lastReset]
    ELSE [allowed |-> TRUE, remaining |-> TWEET_LIMIT - count,
          tweetCount |-> count, lastResetTime |-> lastReset]

checkRateLimit(count, lastReset, t) ==
    IF t - lastReset > RESET_PERIOD
    THEN [allowed |-> TRUE, remaining |-> TWEET_LIMIT,
          tweetCount |-> 0, lastResetTime |-> t]
    ELSE IF count >= TWEET_LIMIT
    THEN [allowed |-> FALSE, remaining |-> 0,
          tweetCount |-> count, lastResetTime |-> lastReset]
    ELSE [allowed |-> TRUE, remaining |-> TWEET_LIMIT - count,
          tweetCount |-> count, lastResetTime |-> lastReset]

\* the rateLimit local of a handler: the part of the result the caller reads
RateLimitOf(cr) == [allowed |-> cr.allowed, remaining |-> cr.remaining]
\* a handler that has not called checkRateLimit() holds no result: remaining is
\* outside 0..TWEET_LIMIT, the values checkRateLimit() returns
NoRateLimit == [allowed |-> FALSE, remaining |-> -1]

\* new Date(lastResetTime + RESET_PERIOD).toISOString(): the instant the ISO
\* string denotes, in epoch milliseconds
resetTime(lastReset) == lastReset + RESET_PERIOD

\* `https://twitter.com/${username}/status/${tweetId}` or null
tweetUrl(tweetId) == IF Truthy(tweetId) THEN <<"status", tweetId>> ELSE <<Null>>

\* ------------------------------------------------------------------ state
VARIABLES
    tweetCount,      \* let tweetCount
    lastResetTime,   \* let lastResetTime
    now,             \* Date.now()
    ticks,           \* how often the clock has advanced
    inflight,        \* bag of the suspended handlers: locals and outstanding call
    response,        \* the response the latest step sent (NoResponse: none)
    published        \* publish calls that succeeded since the last reset

vars == <<tweetCount, lastResetTime, now, ticks, inflight, response, published>>

NoCall == [api |-> "none", text |-> "", reply |-> NoReply]

\* the locals of a handler before its first statement
Fresh ==
    [route |-> "none", tweets |-> <<>>, partCount |-> 0, i |-> 0,
     prevTweetId |-> Null, threadResults |-> <<>>, threadTweets |-> <<>>,
     call |-> NoCall, ncalls |-> 0]

\* a response: the body fields the handlers send, and (not sent) the number of
\* upstream calls the request made and the rateLimit local it held
NoResponse ==
    [route |-> "none", status |-> 0, error |-> "", tweet |-> <<>>, tweets |-> <<>>,
     tweetId |-> Null, threadResults |-> <<>>, remaining |-> Absent,
     resetTime |-> Absent, calls |-> 0, rateLimit |-> NoRateLimit]

Init ==
    /\ tweetCount = 0
    /\ lastResetTime = StartTime
    /\ now = StartTime
    /\ ticks = 0
    /\ inflight = EmptyBag
    /\ response = NoResponse
    /\ published = 0

\* ------------------------------------------------------ generated text
\* a text is a sequence of characters; Quote stands for " and for '
Quote == "\""
Space == " "

\* candidates?.[0]?.content?.parts?.[0]?.text of an answer to the prompt that
\* names `what` (a part number, or "tweet"): absent, empty, or a text
GeminiTexts(what) ==
    {<<>>, <<what>>, <<Quote, what, Quote>>, <<Space, what>>}

GeminiResponses(what) ==
    {[ok |-> FALSE, hasText |-> FALSE, text |-> <<>>],
     [ok |-> TRUE, hasText |-> FALSE, text |-> <<>>]}
        \cup {[ok |-> TRUE, hasText |-> TRUE, text |-> t] : t \in GeminiTexts(what)}

\* !tweet: the text is undefined or the empty string
NoText(r) == ~r.hasText \/ r.text = <<>>

\* tweet.replace(/^["']|["']$/g, ''): one leading and one trailing quote go
StripQuotes(s) ==
    LET a == IF s # <<>> /\ Head(s) = Quote THEN Tail(s) ELSE s
    IN  IF a # <<>> /\ a[Len(a)] = Quote THEN SubSeq(a, 1, Len(a) - 1) ELSE a

\* String.prototype.trim()
RECURSIVE Trim(_)
Trim(s) ==
    IF s # <<>> /\ Head(s) = Space THEN Trim(Tail(s))
    ELSE IF s # <<>> /\ s[Len(s)] = Space THEN Trim(SubSeq(s, 1, Len(s) - 1))
    ELSE s

cleanTweet(s) == Trim(StripQuotes(s))

\* const { partCount = 3 } = req.body
DefaultPartCount == 3
PartCountBodies ==
    {[present |-> FALSE, value |-> 0]}
        \cup {[present |-> TRUE, value |-> v] : v \in 0..MaxParts}
partCountOf(b) == IF b.present THEN b.value ELSE DefaultPartCount

GeminiCall(what) == [api |-> "gemini", text |-> what, reply |-> NoReply]

\* !tweets || !Array.isArray(tweets) || tweets.length === 0
InvalidTweets(tweets) == tweets.kind # "array" \/ Len(tweets.items) = 0

\* the body of the publish call for a text, given prevTweetId
tweetData(text, prevTweetId) ==
    IF Truthy(prevTweetId)
    THEN [api |-> "twitter", text |-> text, reply |-> prevTweetId]
    ELSE [api |-> "twitter", text |-> text, reply |-> NoReply]


\* the event loop runs the next callback once the latest response is written out
Ready == response = NoResponse

\* a new request is accepted while fewer than MaxInFlight are suspended
CanAccept == Ready /\ BagCardinality(inflight) < MaxInFlight

\* the handler with locals `me` suspends / resumes / moves to its next await
Suspend(me) == inflight (+) SetToBag({me})
Resume(me) == inflight (-) SetToBag({me})
Continue(me, next) == (inflight (-) SetToBag({me})) (+) SetToBag({next})

Suspended(route) == {me \in BagToSet(inflight) : me.route = route}

\* ------------------------------------------------------------------ clock
Tick(d) ==
    /\ Ready
    /\ ticks < MaxTicks
    /\ now' = now + d
    /\ ticks' = ticks + 1
    /\ response' = NoResponse
    /\ UNCHANGED <<tweetCount, lastResetTime, inflight, published>>

\* the response of the latest step has been written to its socket
Deliver ==
    /\ ~Ready
    /\ response' = NoResponse
    /\ UNCHANGED <<tweetCount, lastResetTime, now, ticks, inflight, published>>

\* ------------------------------------------------------------ GET /status
Status ==
    /\ Ready
    /\ response' = [NoResponse EXCEPT !.route = "status", !.status = 200]
    /\ UNCHANGED <<tweetCount, lastResetTime, now, ticks, inflight, published>>

\* -------------------------------------------------------- GET /rate-limit
RateLimitGet ==
    LET cr == checkRateLimit(tweetCount, lastResetTime, now) IN
    /\ Ready
    /\ tweetCount' = cr.tweetCount
    /\ lastResetTime' = cr.lastResetTime
    /\ published' = IF cr.lastResetTime # lastResetTime THEN 0 ELSE published
    /\ response' = [NoResponse EXCEPT !.route = "rate-limit", !.status = 200,
                       !.remaining = <<cr.remaining>>,
                       !.resetTime = <<resetTime(cr.lastResetTime)>>,
                       !.rateLimit = RateLimitOf(cr)]
    /\ UNCHANGED <<now, ticks, inflight>>

\* ---------------------------------------------------- POST /generate-tweet
GenerateTweet(topic) ==
    /\ CanAccept
    /\ IF ~Truthy(topic)
       THEN /\ response' = [NoResponse EXCEPT !.route = "generate-tweet",
                               !.status = 400, !.error = "Topic is required"]
            /\ UNCHANGED inflight
       ELSE /\ inflight' = Suspend([Fresh EXCEPT !.route = "generate-tweet",
                                       !.call = GeminiCall("tweet"), !.ncalls = 1])
            /\ response' = NoResponse
    /\ UNCHANGED <<tweetCount, lastResetTime, now, ticks, published>>

GenerateTweetReturn(me, r) ==
    /\ Ready
    /\ me \in Suspended("generate-tweet")
    /\ inflight' = Resume(me)
    /\ IF r.ok /\ ~NoText(r)
       THEN response' = [NoResponse EXCEPT !.route = "generate-tweet", !.status = 200,
                            !.tweet = cleanTweet(r.text), !.calls = me.ncalls]
       ELSE response' = [NoResponse EXCEPT !.route = "generate-tweet", !.status = 500,
                            !.error = "Failed to generate tweet content",
                            !.calls = me.ncalls]
    /\ UNCHANGED <<tweetCount, lastResetTime, now, ticks, published>>

\* --------------------------------------------------- POST /generate-thread
\* from the start of the handler to the await of the first generate call, or
\* to the end when the loop body never runs
GenerateThread(topic, pc) ==
    /\ CanAccept
    /\ IF ~Truthy(topic)
       THEN /\ response' = [NoResponse EXCEPT !.route = "generate-thread",
                               !.status = 400, !.error = "Topic is required"]
            /\ UNCHANGED inflight
       ELSE IF 1 <= partCountOf(pc)
       THEN /\ inflight' = Suspend([Fresh EXCEPT !.route = "generate-thread",
                                       !.partCount = partCountOf(pc), !.i = 1,
                                       !.call = GeminiCall(ToString(1)),
                                       !.ncalls = 1])
            /\ response' = NoResponse
       ELSE /\ response' = [NoResponse EXCEPT !.route = "generate-thread",
                               !.status = 200, !.tweets = <<>>]
            /\ UNCHANGED inflight
    /\ UNCHANGED <<tweetCount, lastResetTime, now, ticks, published>>

\* variant: the loop stops one part early (i < partCount)
GenerateThreadReturnShort(me, r) ==
    LET threadTweets == Append(me.threadTweets, cleanTweet(r.text)) IN
    /\ Ready
    /\ me \in Suspended("generate-thread")
    /\ IF ~r.ok \/ NoText(r)
       THEN /\ inflight' = Resume(me)
            /\ response' = [NoResponse EXCEPT !.route = "generate-thread",
                               !.status = 500,
                               !.error = "Failed to generate thread content",
                               !.calls = me.ncalls]
       ELSE IF me.i + 1 < me.partCount
       THEN /\ inflight' = Continue(me,
                   [me EXCEPT !.i = me.i + 1, !.threadTweets = threadTweets,
                              !.call = GeminiCall(ToString(me.i + 1)),
                              !.ncalls = me.ncalls + 1])
            /\ response' = NoResponse
       ELSE /\ inflight' = Resume(me)
            /\ response' = [NoResponse EXCEPT !.route = "generate-thread",
                               !.status = 200, !.tweets = threadTweets,
                               !.calls = me.ncalls]
    /\ UNCHANGED <<tweetCount, lastResetTime, now, ticks, published>>

\* the generate call of part i settles: up to the next await or to the end
GenerateThreadReturn(me, r) ==
    LET threadTweets == Append(me.threadTweets, cleanTweet(r.text)) IN
    /\ Ready
    /\ me \in Suspended("generate-thread")
    /\ IF ~r.ok \/ NoText(r)
       THEN /\ inflight' = Resume(me)
            /\ response' = [NoResponse EXCEPT !.route = "generate-thread",
                               !.status = 500,
                               !.error = "Failed to generate thread content",
                               !.calls = me.ncalls]
       ELSE IF me.i + 1 <= me.partCount
       THEN /\ inflight' = Continue(me,
                   [me EXCEPT !.i = me.i + 1, !.threadTweets = threadTweets,
                              !.call = GeminiCall(ToString(me.i + 1)),
                              !.ncalls = me.ncalls + 1])
            /\ response' = NoResponse
       ELSE /\ inflight' = Resume(me)
            /\ response' = [NoResponse EXCEPT !.route = "generate-thread",
                               !.status = 200, !.tweets = threadTweets,
                               !.calls = me.ncalls]
    /\ UNCHANGED <<tweetCount, lastResetTime, now, ticks, published>>

\* variant of POST /post-tweet: the rate limiter is consulted before the body
\* is validated
PostTweetChecksFirst(tweet) ==
    LET cr == checkRateLimit(tweetCount, lastResetTime, now) IN
    /\ CanAccept
    /\ tweetCount' = cr.tweetCount
    /\ lastResetTime' = cr.lastResetTime
    /\ published' = IF cr.lastResetTime # lastResetTime THEN 0 ELSE published
    /\ IF ~Truthy(tweet)
       THEN /\ response' = [NoResponse EXCEPT !.route = "post-tweet", !.status = 400,
                               !.error = "Tweet content is required"]
            /\ UNCHANGED inflight
       ELSE IF ~cr.allowed
       THEN /\ response' = [NoResponse EXCEPT !.route = "post-tweet",
                               !.status = 429, !.error = "Rate limit exceeded",
                               !.resetTime = <<resetTime(cr.lastResetTime)>>,
                               !.rateLimit = RateLimitOf(cr)]
            /\ UNCHANGED inflight
       ELSE /\ inflight' = Suspend([Fresh EXCEPT !.route = "post-tweet",
                                       !.call = tweetData(tweet, Null),
                                       !.ncalls = 1])
            /\ response' = NoResponse
    /\ UNCHANGED <<now, ticks>>

\* ------------------------------------------------------- POST /post-tweet
\* from the start of the handler to its await of the publish call
PostTweet(tweet) ==
    /\ CanAccept
    /\ IF ~Truthy(tweet)
       THEN /\ response' = [NoResponse EXCEPT !.route = "post-tweet", !.status = 400,
                               !.error = "Tweet content is required"]
            /\ UNCHANGED <<tweetCount, lastResetTime, published, inflight>>
       ELSE LET cr == checkRateLimit(tweetCount, lastResetTime, now) IN
            /\ tweetCount' = cr.tweetCount
            /\ lastResetTime' = cr.lastResetTime
            /\ published' = IF cr.lastResetTime # lastResetTime THEN 0 ELSE published
            /\ IF ~cr.allowed
               THEN /\ response' = [NoResponse EXCEPT !.route = "post-tweet",
                                       !.status = 429, !.error = "Rate limit exceeded",
                                       !.resetTime = <<resetTime(cr.lastResetTime)>>,
                                       !.rateLimit = RateLimitOf(cr)]
                    /\ UNCHANGED inflight
               ELSE /\ inflight' = Suspend([Fresh EXCEPT !.route = "post-tweet",
                                               !.call = tweetData(tweet, Null),
                                               !.ncalls = 1])
                    /\ response' = NoResponse
    /\ UNCHANGED <<now, ticks>>

\* variant: the counter is incremented for every attempt, failed ones too
PostTweetReturnCountsAttempt(me, r) ==
    /\ Ready
    /\ me \in Suspended("post-tweet")
    /\ inflight' = Resume(me)
    /\ tweetCount' = tweetCount + 1
    /\ published' = IF r.ok THEN published + 1 ELSE published
    /\ IF r.ok
       THEN response' = [NoResponse EXCEPT !.route = "post-tweet", !.status = 200,
                            !.tweetId = r.id,
                            !.remaining = <<TWEET_LIMIT - (tweetCount + 1)>>,
                            !.resetTime = <<resetTime(lastResetTime)>>,
                            !.calls = me.ncalls]
       ELSE response' = [NoResponse EXCEPT !.route = "post-tweet", !.status = 500,
                            !.error = "Failed to post tweet",
                            !.calls = me.ncalls]
    /\ UNCHANGED <<lastResetTime, now, ticks>>

\* the publish call settles: the handler resumes and runs to its end
PostTweetReturn(me, r) ==
    /\ Ready
    /\ me \in Suspended("post-tweet")
    /\ inflight' = Resume(me)
    /\ IF r.ok
       THEN /\ tweetCount' = tweetCount + 1
            /\ published' = published + 1
            /\ response' = [NoResponse EXCEPT !.route = "post-tweet", !.status = 200,
                               !.tweetId = r.id,
                               !.remaining = <<TWEET_LIMIT - (tweetCount + 1)>>,
                               !.resetTime = <<resetTime(lastResetTime)>>,
                               !.calls = me.ncalls]
       ELSE /\ response' = [NoResponse EXCEPT !.route = "post-tweet", !.status = 500,
                               !.error = "Failed to post tweet",
                               !.calls = me.ncalls]
            /\ UNCHANGED <<tweetCount, published>>
    /\ UNCHANGED <<lastResetTime, now, ticks>>

\* ------------------------------------------------------ POST /post-thread
\* variant: only rateLimit.allowed is tested, not remaining < tweets.length
PostThreadIgnoresRemaining(tweets) ==
    /\ CanAccept
    /\ IF InvalidTweets(tweets)
       THEN /\ response' = [NoResponse EXCEPT !.route = "post-thread", !.status = 400,
                               !.error = "Valid tweets array is required"]
            /\ UNCHANGED <<tweetCount, lastResetTime, published, inflight>>
       ELSE LET cr == checkRateLimit(tweetCount, lastResetTime, now) IN
            /\ tweetCount' = cr.tweetCount
            /\ lastResetTime' = cr.lastResetTime
            /\ published' = IF cr.lastResetTime # lastResetTime THEN 0 ELSE published
            /\ IF ~cr.allowed
               THEN /\ response' = [NoResponse EXCEPT !.route = "post-thread",
                                       !.status = 429, !.error = "Rate limit exceeded",
                                       !.resetTime = <<resetTime(cr.lastResetTime)>>,
                                       !.rateLimit = RateLimitOf(cr)]
                    /\ UNCHANGED inflight
               ELSE /\ inflight' = Suspend([Fresh EXCEPT !.route = "post-thread",
                                               !.tweets = tweets.items, !.i = 1,
                                               !.call = tweetData(tweets.items[1], Null),
                                               !.ncalls = 1])
                    /\ response' = NoResponse
    /\ UNCHANGED <<now, ticks>>

\* from the start of the handler to the await of the first publish call
PostThread(tweets) ==
    /\ CanAccept
    /\ IF InvalidTweets(tweets)
       THEN /\ response' = [NoResponse EXCEPT !.route = "post-thread", !.status = 400,
                               !.error = "Valid tweets array is required"]
            /\ UNCHANGED <<tweetCount, lastResetTime, published, inflight>>
       ELSE LET cr == checkRateLimit(tweetCount, lastResetTime, now) IN
            /\ tweetCount' = cr.tweetCount
            /\ lastResetTime' = cr.lastResetTime
            /\ published' = IF cr.lastResetTime # lastResetTime THEN 0 ELSE published
            /\ IF ~cr.allowed \/ cr.remaining < Len(tweets.items)
               THEN /\ response' = [NoResponse EXCEPT !.route = "post-thread",
                                       !.status = 429, !.error = "Rate limit exceeded",
                                       !.resetTime = <<resetTime(cr.lastResetTime)>>,
                                       !.rateLimit = RateLimitOf(cr)]
                    /\ UNCHANGED inflight
               ELSE /\ inflight' = Suspend([Fresh EXCEPT !.route = "post-thread",
                                               !.tweets = tweets.items, !.i = 1,
                                               !.call = tweetData(tweets.items[1], Null),
                                               !.ncalls = 1])
                    /\ response' = NoResponse
    /\ UNCHANGED <<now, ticks>>

\* variant: a failing item takes the items published before it off the counter
PostThreadReturnRollsBack(me, r) ==
    LET tweetId == r.id
        threadResults == Append(me.threadResults,
                                [tweetId |-> tweetId, tweetUrl |-> tweetUrl(tweetId),
                                 text |-> me.tweets[me.i]])
    IN
    /\ Ready
    /\ me \in Suspended("post-thread")
    /\ IF ~r.ok
       THEN /\ inflight' = Resume(me)
            /\ response' = [NoResponse EXCEPT !.route = "post-thread", !.status = 500,
                               !.error = "Failed to post thread",
                               !.calls = me.ncalls]
            /\ tweetCount' = IF tweetCount >= Len(me.threadResults)
                               THEN tweetCount - Len(me.threadResults) ELSE 0
            /\ UNCHANGED published
       ELSE /\ tweetCount' = tweetCount + 1
            /\ published' = published + 1
            /\ IF me.i < Len(me.tweets)
               THEN /\ inflight' = Continue(me,
                           [me EXCEPT !.i = me.i + 1, !.prevTweetId = tweetId,
                                      !.threadResults = threadResults,
                                      !.call = tweetData(me.tweets[me.i + 1], tweetId),
                                      !.ncalls = me.ncalls + 1])
                    /\ response' = NoResponse
               ELSE /\ inflight' = Resume(me)
                    /\ response' = [NoResponse EXCEPT !.route = "post-thread",
                                       !.status = 200,
                                       !.threadResults = threadResults,
                                       !.remaining = <<TWEET_LIMIT - (tweetCount + 1)>>,
                                       !.resetTime = <<resetTime(lastResetTime)>>,
                                       !.calls = me.ncalls]
    /\ UNCHANGED <<lastResetTime, now, ticks>>

\* the publish call of item i settles: up to the next await or to the end
PostThreadReturn(me, r) ==
    LET tweetId == r.id
        threadResults == Append(me.threadResults,
                                [tweetId |-> tweetId, tweetUrl |-> tweetUrl(tweetId),
                                 text |-> me.tweets[me.i]])
    IN
    /\ Ready
    /\ me \in Suspended("post-thread")
    /\ IF ~r.ok
       THEN /\ inflight' = Resume(me)
            /\ response' = [NoResponse EXCEPT !.route = "post-thread", !.status = 500,
                               !.error = "Failed to post thread",
                               !.calls = me.ncalls]
            /\ UNCHANGED <<tweetCount, published>>
       ELSE /\ tweetCount' = tweetCount + 1
            /\ published' = published + 1
            /\ IF me.i < Len(me.tweets)
               THEN /\ inflight' = Continue(me,
                           [me EXCEPT !.i = me.i + 1, !.prevTweetId = tweetId,
                                      !.threadResults = threadResults,
                                      !.call = tweetData(me.tweets[me.i + 1], tweetId),
                                      !.ncalls = me.ncalls + 1])
                    /\ response' = NoResponse
               ELSE /\ inflight' = Resume(me)
                    /\ response' = [NoResponse EXCEPT !.route = "post-thread",
                                       !.status = 200,
                                       !.threadResults = threadResults,
                                       !.remaining = <<TWEET_LIMIT - (tweetCount + 1)>>,
                                       !.resetTime = <<resetTime(lastResetTime)>>,
                                       !.calls = me.ncalls]
    /\ UNCHANGED <<lastResetTime, now, ticks>>

Next ==
    \/ \E d \in Deltas : Tick(d)
    \/ Deliver
    \/ Status
    \/ RateLimitGet
    \/ \E topic \in Topics : GenerateTweet(topic)
    \/ \E me \in Suspended("generate-tweet") :
            \E r \in GeminiResponses(me.call.text) : GenerateTweetReturn(me, r)
    \/ \E topic \in Topics, pc \in PartCountBodies : GenerateThread(topic, pc)
    \/ \E me \in Suspended("generate-thread") :
            \E r \in GeminiResponses(me.call.text) : GenerateThreadReturn(me, r)
    \/ \E tweet \in TweetBodies : PostTweet(tweet)
    \/ \E me \in Suspended("post-tweet") :
            \E r \in TwitterResponses(me.call.text) : PostTweetReturn(me, r)
    \/ \E tweets \in TweetsBodies : PostThread(tweets)
    \/ \E me \in Suspended("post-thread") :
            \E r \in TwitterResponses(me.call.text) : PostThreadReturn(me, r)

Spec == Init /\ [][Next]_vars
\* ================================================================ properties
\* the window that started at lastResetTime has expired at the current time
Expired == now - lastResetTime > RESET_PERIOD

\* a step that consults the rate limiter: GET /rate-limit, or a publish request
\* that passed its validation
ChecksRateLimit ==
    \/ RateLimitGet
    \/ \E tweet \in TweetBodies : Truthy(tweet) /\ PostTweet(tweet)
    \/ \E tweets \in TweetsBodies : ~InvalidTweets(tweets) /\ PostThread(tweets)

\* a step in which a publish call returns successfully
PublishSucceeds ==
    \E me \in BagToSet(inflight) :
        \E r \in TwitterResponses(me.call.text) :
            r.ok /\ (PostTweetReturn(me, r) \/ PostThreadReturn(me, r))

PublishFailure == [ok |-> FALSE, id |-> Undefined]

\* ---------------------------------------------------------------------- C1
\* C1: under any interleaving of the publish handlers, tweetCount never
\* exceeds TWEET_LIMIT and at most TWEET_LIMIT publishes succeed in one window.
C1_NeverAboveLimit ==
    /\ tweetCount <= TWEET_LIMIT
    /\ published <= TWEET_LIMIT

\* ---------------------------------------------------------------------- C2
\* C2: checkRateLimit() resets to (0, now) and reports (true, 17) when more
\* than RESET_PERIOD has elapsed since lastResetTime; otherwise it reports
\* (false, 0) when tweetCount >= 17 and (true, 17 - tweetCount) when not,
\* leaving the state alone. A fresh process reports (true, 17), and after 17
\* successful publishes in an unexpired window the report is (false, 0).
C2_Reports(rl, count, lastReset) ==
    IF Expired
    THEN rl = [allowed |-> TRUE, remaining |-> 17] /\ count = 0 /\ lastReset = now
    ELSE /\ count = tweetCount
         /\ lastReset = lastResetTime
         /\ IF tweetCount >= 17
            THEN rl = [allowed |-> FALSE, remaining |-> 0]
            ELSE rl = [allowed |-> TRUE, remaining |-> 17 - tweetCount]

C2_CheckStep ==
    response'.route = "rate-limit" =>
        /\ C2_Reports(response'.rateLimit, tweetCount', lastResetTime')
        /\ response'.remaining = <<response'.rateLimit.remaining>>

C2_CheckState ==
    LET cr == checkRateLimit(tweetCount, lastResetTime, now) IN
    /\ C2_Reports(RateLimitOf(cr), cr.tweetCount, cr.lastResetTime)
    /\ (tweetCount = 0 /\ now = lastResetTime)
            => RateLimitOf(cr) = [allowed |-> TRUE, remaining |-> 17]
    /\ (published = 17 /\ ~Expired)
            => RateLimitOf(cr) = [allowed |-> FALSE, remaining |-> 0]

C2_CheckRateLimit == [](C2_CheckState) /\ [][C2_CheckStep]_vars

\* GET /rate-limit reported (false, 0): 17 publishes are counted, window open
C2_Witness ==
    /\ response.route = "rate-limit"
    /\ response.rateLimit = [allowed |-> FALSE, remaining |-> 0]
    /\ published = 17

\* ---------------------------------------------------------------------- C3
\* a POST /post-tweet with a non-empty tweet arrives while 17 publishes are
\* counted and the window has not expired
C3_Rejected ==
    /\ tweetCount >= TWEET_LIMIT
    /\ ~Expired
    /\ \E tweet \in TweetBodies : Truthy(tweet) /\ PostTweet(tweet)

C3_NoPublishNoChange ==
    /\ response'.route = "post-tweet"
    /\ response'.status = 429
    /\ response'.rateLimit.remaining = 0
    /\ response'.calls = 0
    /\ inflight' = inflight
    /\ UNCHANGED <<tweetCount, lastResetTime>>

\* C3 as stated: the request is answered 429 with remaining = 0 and a resetTime
\* strictly later than the time of the request, publishes nothing and leaves
\* tweetCount and lastResetTime unchanged.
C3_ResetTimeStrictlyLater ==
    [][C3_Rejected => C3_NoPublishNoChange /\ response'.resetTime[1] > now]_vars

\* C3 amended: the request is answered 429, the rate-limit check reporting
\* remaining = 0 (the body carries error, details and resetTime, no remaining
\* field), with a resetTime not earlier than the time of the request (equal to
\* it when exactly RESET_PERIOD has elapsed since lastResetTime); it publishes
\* nothing and leaves tweetCount and lastResetTime unchanged.
C3_ResetTimeNotEarlier ==
    [][C3_Rejected =>
          /\ C3_NoPublishNoChange
          /\ response'.remaining = Absent
          /\ response'.resetTime = <<lastResetTime + RESET_PERIOD>>
          /\ response'.resetTime[1] >= now]_vars

\* the 429 was sent at the last instant of the window: resetTime is the present
C3_Witness ==
    /\ response.route = "post-tweet"
    /\ response.status = 429
    /\ tweetCount = 17
    /\ response.resetTime = <<now>>
\* ---------------------------------------------------------------------- C4
\* C4: a publish call that fails leaves tweetCount as it was and the request is
\* answered 500, for POST /post-tweet and for every item of POST /post-thread;
\* tweetCount goes up only by 1 and only in a step in which a publish call
\* returned successfully.
C4_FailureStep ==
    /\ \A me \in Suspended("post-tweet") :
            PostTweetReturn(me, PublishFailure) =>
                /\ tweetCount' = tweetCount
                /\ response'.route = "post-tweet"
                /\ response'.status = 500
    /\ \A me \in Suspended("post-thread") :
            PostThreadReturn(me, PublishFailure) =>
                /\ tweetCount' = tweetCount
                /\ response'.route = "post-thread"
                /\ response'.status = 500
    /\ tweetCount' > tweetCount =>
            tweetCount' = tweetCount + 1 /\ PublishSucceeds

C4_FailedPublishNotCounted == [][C4_FailureStep]_vars

\* a POST /post-tweet whose only publish call failed: 500, nothing counted
C4_Witness ==
    /\ response.route = "post-tweet"
    /\ response.status = 500
    /\ response.calls = 1
    /\ tweetCount = 0
    /\ published = 0

\* ---------------------------------------------------------------------- C5
\* C5: POST /post-thread with a valid array of n items suspends at its first
\* publish call only if the check made at its start reports allowed = true and
\* remaining >= n; otherwise it is answered 429, has made no publish call and
\* has not incremented tweetCount.
C5_ThreadStep ==
    \A tweets \in TweetsBodies :
        (~InvalidTweets(tweets) /\ PostThread(tweets)) =>
            LET n == Len(tweets.items)
                allowed == Expired \/ tweetCount < 17
                remaining == IF Expired THEN 17
                             ELSE IF tweetCount >= 17 THEN 0 ELSE 17 - tweetCount
            IN  IF allowed /\ remaining >= n
                THEN /\ response' = NoResponse
                     /\ BagCardinality(inflight') = BagCardinality(inflight) + 1
                     /\ \E me \in BagToSet(inflight') :
                            /\ me.route = "post-thread"
                            /\ me.tweets = tweets.items
                            /\ me.ncalls = 1
                ELSE /\ response'.route = "post-thread"
                     /\ response'.status = 429
                     /\ response'.calls = 0
                     /\ response'.rateLimit =
                            [allowed |-> allowed, remaining |-> remaining]
                     /\ inflight' = inflight
                     /\ tweetCount' <= tweetCount

C5_ThreadNeedsQuotaForAllItems == [][C5_ThreadStep]_vars

\* a thread was refused although the check allowed a publish: fewer than n left
C5_Witness ==
    /\ response.route = "post-thread"
    /\ response.status = 429
    /\ response.rateLimit.allowed
    /\ response.rateLimit.remaining \in 1..(TWEET_LIMIT - 1)

\* ---------------------------------------------------------------------- C6
\* C6: a POST /post-thread issues its publish calls one at a time in input
\* order, n of them when all succeed; the first call carries no reply reference
\* and call i > 1 carries as reply reference the identifier the response of call
\* i - 1 contained, whatever that response contained, a response without an
\* identifier included.
C6_ReplyChain ==
    /\ \A me \in Suspended("post-thread") :
          /\ me.ncalls = me.i
          /\ Len(me.threadResults) = me.i - 1
          /\ me.call.text = me.tweets[me.i]
          /\ me.i = 1 => me.call.reply = NoReply
          /\ me.i > 1 => me.call.reply = me.threadResults[me.i - 1].tweetId
    /\ (response.route = "post-thread" /\ response.status = 200) =>
          response.calls = Len(response.threadResults)

\* ---------------------------------------------------------------------- C7
\* C7: when the publish call of item k of a POST /post-thread fails, the handler
\* ends there (k calls made, none for a later item), the response is a 500
\* without any of the results of items 1..k-1, and tweetCount keeps the k-1
\* increments of the items already published.
C7_AbortStep ==
    \A me \in Suspended("post-thread") :
        PostThreadReturn(me, PublishFailure) =>
            /\ response'.route = "post-thread"
            /\ response'.status = 500
            /\ response'.threadResults = <<>>
            /\ response'.tweetId = Null
            /\ response'.calls = me.i
            /\ inflight' = inflight (-) SetToBag({me})
            /\ tweetCount' = tweetCount
            /\ published' = published

C7_ThreadAbortsWithoutRollback == [][C7_AbortStep]_vars

\* the second item of a thread failed: 500 after 2 calls, the first item counted
C7_Witness ==
    /\ response.route = "post-thread"
    /\ response.status = 500
    /\ response.calls = 2
    /\ tweetCount = 1
    /\ published = 1
\* ---------------------------------------------------------------------- C8
\* C8: POST /generate-thread asks for the parts 1, 2, ..., partCount one after
\* the other, one call outstanding at a time; the first part whose call fails or
\* brings no text ends the request with a 500 that carries none of the parts
\* generated so far; the answer {tweets} is sent only when every part succeeded
\* and then holds exactly partCount entries in index order.
C8_InOrder ==
    \A me \in Suspended("generate-thread") :
        /\ me.i \in 1..me.partCount
        /\ me.ncalls = me.i
        /\ me.call = GeminiCall(ToString(me.i))
        /\ Len(me.threadTweets) = me.i - 1
        /\ \A k \in 1..(me.i - 1) : me.threadTweets[k] = <<ToString(k)>>

C8_ReturnStep ==
    \A me \in Suspended("generate-thread") :
        \A r \in GeminiResponses(me.call.text) :
            GenerateThreadReturn(me, r) =>
                IF ~r.ok \/ ~r.hasText \/ r.text = <<>>
                THEN /\ response'.route = "generate-thread"
                     /\ response'.status = 500
                     /\ response'.tweets = <<>>
                     /\ response'.calls = me.i
                     /\ inflight' = inflight (-) SetToBag({me})
                ELSE IF me.i < me.partCount
                THEN /\ response' = NoResponse
                     /\ \E next \in BagToSet(inflight') :
                            /\ next.route = "generate-thread"
                            /\ next.i = me.i + 1
                            /\ next.partCount = me.partCount
                ELSE /\ response'.route = "generate-thread"
                     /\ response'.status = 200
                     /\ response'.calls = me.partCount
                     /\ Len(response'.tweets) = me.partCount
                     /\ \A k \in 1..me.partCount :
                            response'.tweets[k] = <<ToString(k)>>

C8_StartStep ==
    \A topic \in Topics, pc \in PartCountBodies :
        (Truthy(topic) /\ GenerateThread(topic, pc)) =>
            IF partCountOf(pc) >= 1
            THEN /\ response' = NoResponse
                 /\ BagCardinality(inflight') = BagCardinality(inflight) + 1
                 /\ \E me \in BagToSet(inflight') :
                        /\ me.route = "generate-thread"
                        /\ me.i = 1
                        /\ me.partCount = partCountOf(pc)
            ELSE /\ response'.route = "generate-thread"
                 /\ response'.status = 200
                 /\ response'.calls = 0
                 /\ Len(response'.tweets) = partCountOf(pc)

C8_ThreadGeneratedInOrder ==
    [](C8_InOrder) /\ [][C8_StartStep /\ C8_ReturnStep]_vars

\* a thread of the default three parts was generated and answered in full
C8_Witness ==
    /\ response.route = "generate-thread"
    /\ response.status = 200
    /\ response.calls = 3
    /\ response.tweets = <<<<"1">>, <<"2">>, <<"3">>>>

\* ---------------------------------------------------------------------- C9
\* C9: a request whose required field is missing or empty (topic, tweet, a
\* non-empty tweets array) is answered 400 without any upstream call and without
\* the rate limiter being consulted: tweetCount and lastResetTime keep their
\* values even when the window has expired.
C9_Answered400(route) ==
    /\ response'.route = route
    /\ response'.status = 400
    /\ response'.calls = 0
    /\ response'.rateLimit = NoRateLimit
    /\ inflight' = inflight
    /\ UNCHANGED <<tweetCount, lastResetTime>>

C9_InvalidStep ==
    /\ \A topic \in {Undefined, ""} :
          /\ GenerateTweet(topic) => C9_Answered400("generate-tweet")
          /\ \A pc \in PartCountBodies :
                GenerateThread(topic, pc) => C9_Answered400("generate-thread")
    /\ \A tweet \in {Undefined, ""} :
          PostTweet(tweet) => C9_Answered400("post-tweet")
    /\ \A tweets \in TweetsBodies :
          (tweets.kind # "array" \/ tweets.items = <<>>) =>
              (PostThread(tweets) => C9_Answered400("post-thread"))
    /\ response'.status = 400 =>
          inflight' = inflight /\ UNCHANGED <<tweetCount, lastResetTime>>

C9_InvalidRequestRejectedFirst == [][C9_InvalidStep]_vars

\* a POST /post-tweet without text was refused after the window had expired,
\* and the expired window is still in place
C9_Witness ==
    /\ response.route = "post-tweet"
    /\ response.status = 400
    /\ Expired
    /\ tweetCount > 0

\* --------------------------------------------------------------------- C10
C10_Changed == tweetCount' # tweetCount \/ lastResetTime' # lastResetTime

\* the two ways the rate-limit state changes
C10_Increment ==
    PublishSucceeds /\ tweetCount' = tweetCount + 1 /\ lastResetTime' = lastResetTime
C10_Reset ==
    ChecksRateLimit /\ Expired /\ tweetCount' = 0 /\ lastResetTime' = now

C10_TwoWays ==
    /\ C10_Changed => C10_Increment \/ C10_Reset
    /\ (ChecksRateLimit /\ ~Expired) => ~C10_Changed
    /\ response'.status \in {400, 500} => ~C10_Changed
    /\ response'.route \in {"status", "generate-tweet", "generate-thread"}
            => ~C10_Changed

\* C10 as stated: the state changes only by the increment of a successful
\* publish and by the reset of a check made after the window expired, and every
\* rejected (400 or 429) request leaves both fields unchanged.
C10_RejectedNeverChanges ==
    [][C10_TwoWays /\ (response'.status = 429 => ~C10_Changed)]_vars

\* C10 amended: the state changes only in those two ways; generation requests,
\* /status, 400 answers, failed publishes and checks made in an unexpired
\* window leave both fields unchanged, and so does a 429 answer unless the check
\* of that request found the window expired: a POST /post-thread with more than
\* TWEET_LIMIT items is then answered 429 after the reset to (0, now).
C10_OnlyIncrementAndReset ==
    [][/\ C10_TwoWays
       /\ (response'.status = 429 /\ C10_Changed) =>
              /\ Expired
              /\ response'.route = "post-thread"
              /\ response'.rateLimit = [allowed |-> TRUE, remaining |-> TWEET_LIMIT]
              /\ tweetCount' = 0
              /\ lastResetTime' = now]_vars

\* a thread refused with 429 whose check has just reset the expired window
C10_Witness ==
    /\ response.route = "post-thread"
    /\ response.status = 429
    /\ response.rateLimit.allowed
    /\ lastResetTime = now
    /\ now > StartTime
    /\ tweetCount = 0
\* --------------------------------------------------------------------- C11
\* C11: in every reachable state tweetCount is the number of publish calls that
\* returned successfully since lastResetTime was last reset (a publish started
\* before a reset and completed after it counts in the new window), and
\* lastResetTime never decreases: it moves only forward, to the current time,
\* together with the counter going to 0.
C11_CountIsPublished == tweetCount = published

C11_ResetStep ==
    /\ lastResetTime' >= lastResetTime
    /\ lastResetTime' # lastResetTime =>
          /\ lastResetTime' = now
          /\ tweetCount' = 0
    /\ PublishSucceeds => tweetCount' = tweetCount + 1

C11_CountMatchesWindow == [](C11_CountIsPublished) /\ [][C11_ResetStep]_vars

\* a thread of two items has just been answered in full, yet one publish is
\* counted: the window was reset between the return of its first publish call
\* and the return of its second, which was outstanding across the reset
C11_Witness ==
    /\ response.route = "post-thread"
    /\ response.status = 200
    /\ Len(response.threadResults) = 2
    /\ lastResetTime > StartTime
    /\ tweetCount = 1
    /\ published = 1
====
